---- MODULE Spec2Model ----
(***************************************************************************)
(* Mind-Mate: the mood-journal engine (backend/jac/engine.py), its trend   *)
(* analyzer and the store it reads and writes.                             *)
(*                                                                         *)
(* Instants are integers: milliseconds since the start of UTC day 0.       *)
(* Python floats are IEEE-754 doubles; they are modelled as such (sign,    *)
(* exponent, 53-bit significand in two limbs), with round-to-nearest-even  *)
(* division, so that the 0.15 boundary of the classifier is the code's.    *)
(***************************************************************************)
EXTENDS Integers, Sequences, FiniteSets, TLC

(***************************************************************************)
(* IEEE-754 double arithmetic, as far as the analyzer uses it: int / int,  *)
(* float / float, max and the comparisons.                                 *)
(* A nonzero double is s * (hi * 2^27 + lo) * 2^(e - 52) with              *)
(* 2^25 <= hi < 2^26 and 0 <= lo < 2^27.                                   *)
(***************************************************************************)
Limb == 2^27

HiOne == 2^25

Chunk == 2^13

FZero == [s |-> 0, e |-> 0, hi |-> 0, lo |-> 0]

FOne == [s |-> 1, e |-> 0, hi |-> HiOne, lo |-> 0]

Abs(i) == IF i < 0 THEN -i ELSE i

Sign(i) == IF i < 0 THEN -1 ELSE IF i = 0 THEN 0 ELSE 1

\* the significand plus one unit in the last place
FRoundUp(f) ==
  IF f.lo + 1 < Limb THEN [f EXCEPT !.lo = f.lo + 1]
  ELSE IF f.hi + 1 < 2 * HiOne THEN [f EXCEPT !.hi = f.hi + 1, !.lo = 0]
  ELSE [f EXCEPT !.e = f.e + 1, !.hi = HiOne, !.lo = 0]

RECURSIVE Normalize(_, _, _)
\* a, q > 0: <<a', q', e>> with a / q = (a' / q') * 2^e and q' <= a' < 2 q'
Normalize(a, q, e) ==
  IF a >= 2 * q THEN Normalize(a, 2 * q, e + 1)
  ELSE IF a < q THEN Normalize(2 * a, q, e - 1)
  ELSE <<a, q, e>>

\* p / q for integers p and q > 0, correctly rounded (Python's int / int)
IntDiv(p, q) ==
  IF p = 0 THEN FZero
  ELSE
    LET nz == Normalize(Abs(p), q, 0)
        d  == nz[2]
        r0 == nz[1] - d
        d1 == (r0 * Chunk) \div d
        r1 == (r0 * Chunk) % d
        d2 == (r1 * Chunk) \div d
        r2 == (r1 * Chunk) % d
        d3 == (r2 * Chunk) \div d
        r3 == (r2 * Chunk) % d
        d4 == (r3 * Chunk) \div d
        r4 == (r3 * Chunk) % d
        t  == [s  |-> Sign(p), e |-> nz[3],
               hi |-> HiOne + d1 * (Chunk \div 2) + (d2 \div 2),
               lo |-> (d2 % 2) * (Limb \div 2) + d3 * Chunk + d4]
    IN IF 2 * r4 > d \/ (2 * r4 = d /\ t.lo % 2 = 1) THEN FRoundUp(t) ELSE t

\* two-limb naturals <<hi, lo>>, lo < 2^27
LGe(a, b) == a[1] > b[1] \/ (a[1] = b[1] /\ a[2] >= b[2])

LSub(a, b) ==
  IF a[2] >= b[2] THEN <<a[1] - b[1], a[2] - b[2]>>
  ELSE <<a[1] - b[1] - 1, a[2] + Limb - b[2]>>

\* a * m for a small natural m (a < 2^53, m <= 16)
LMul(a, m) == <<a[1] * m + ((a[2] * m) \div Limb), (a[2] * m) % Limb>>

RECURSIVE DivDigits(_, _, _)
\* the next k hexadecimal quotient digits of r / y (r < y) by long division, most
\* significant first: <<quotient, remainder>>
DivDigits(r, y, k) ==
  IF k = 0 THEN <<(<<0, 0>>), r>>
  ELSE LET r16  == LMul(r, 16)
           d    == CHOOSE m \in 0..15 : LGe(r16, LMul(y, m)) /\ ~LGe(r16, LMul(y, m + 1))
           rest == DivDigits(LSub(r16, LMul(y, d)), y, k - 1)
           q    == rest[1]
       IN IF k > 7 THEN <<(<<q[1] + d * 2^(4 * k - 31), q[2]>>), rest[2]>>
          ELSE IF k = 7 THEN <<(<<q[1] + (d \div 8), q[2] + (d % 8) * 2^24>>), rest[2]>>
          ELSE <<(<<q[1], q[2] + d * 2^(4 * k - 4)>>), rest[2]>>

\* x / y for doubles, y nonzero, rounded to nearest even
FDiv(x, y) ==
  IF x.s = 0 THEN FZero
  ELSE
    LET mx == <<x.hi, x.lo>>
        my == <<y.hi, y.lo>>
        ge == LGe(mx, my)
        r0 == IF ge THEN LSub(mx, my) ELSE LSub(LMul(mx, 2), my)
        qr == DivDigits(r0, my, 13)
        t  == [s |-> x.s * y.s, e |-> IF ge THEN x.e - y.e ELSE x.e - y.e - 1,
               hi |-> HiOne + qr[1][1], lo |-> qr[1][2]]
        r2 == LMul(qr[2], 2)
    IN IF (LGe(r2, my) /\ r2 # my) \/ (r2 = my /\ t.lo % 2 = 1)
       THEN FRoundUp(t) ELSE t

\* x < y for positive doubles
PosLt(x, y) ==
  x.e < y.e \/ (x.e = y.e /\ (x.hi < y.hi \/ (x.hi = y.hi /\ x.lo < y.lo)))

FLt(x, y) ==
  IF x.s # y.s THEN x.s < y.s
  ELSE IF x.s = 1 THEN PosLt(x, y)
  ELSE IF x.s = -1 THEN PosLt(y, x)
  ELSE FALSE

FGt(x, y) == FLt(y, x)

FNeg(x) == [x EXCEPT !.s = -x.s]

\* Python's max(a, b): b only when it is strictly greater
FMax(a, b) == IF FGt(b, a) THEN b ELSE a

(***************************************************************************)
(* Bounds of the model.                                                    *)
(***************************************************************************)
\* journal entries the store may hold
MaxEntries == 2

\* days the clock may advance past the first one
MaxDays == 1

\* log_mood is given timestamps up to this many days before "now"
MaxBack == 2

\* window_days and compare_days range over 1..MaxWindow and 1..MaxCompare
MaxWindow == 2

MaxCompare == 2

(***************************************************************************)
(* Time.  datetime and timedelta, at millisecond resolution.               *)
(***************************************************************************)
Second == 1000

Day == 86400 * Second

\* t.replace(hour=0, minute=0, second=0, microsecond=0)
DayStart(t) == t - (t % Day)

\* the first UTC day of the clock: late enough for every window to start after 0
FirstDay == MaxBack + MaxWindow + MaxCompare + 1

\* the times of day at which the clock is read: midnight, the last second of the
\* day and the middle of that second
Offsets == {0, Day - Second, Day - (Second \div 2)}

Instants == {d * Day + o : d \in FirstDay..(FirstDay + MaxDays), o \in Offsets}

(***************************************************************************)
(* ISO-8601 timestamps.  A timestamp string is what it denotes: a wall     *)
(* clock reading with a UTC offset ("aware"), one without ("naive"), or    *)
(* text that datetime.fromisoformat rejects ("bad"); "none" is None.       *)
(***************************************************************************)
\* datetime.isoformat() of an aware UTC datetime
isoformat(t) == [kind |-> "aware", wall |-> t, off |-> 0]

NoTimestamp == [kind |-> "none", wall |-> 0, off |-> 0]

BadTimestamp == [kind |-> "bad", wall |-> 0, off |-> 0]

\* the empty string
EmptyTimestamp == [kind |-> "empty", wall |-> 0, off |-> 0]

\* the text of isoformat(t) with a character damaged: fromisoformat raises ValueError
Damaged(t) == [BadTimestamp EXCEPT !.wall = t]

\* every text but None taken for a timestamp, as if the parser never raised
ParsesAnyText(ts) == ts.kind # "none"

\* `if not ts_raw: continue` and the except around fromisoformat
Parses(ts) == ts.kind \in {"aware", "naive"}

\* fromisoformat, tzinfo defaulted to UTC, astimezone(UTC): the UTC instant
fromisoformat(ts) == IF ts.kind = "aware" THEN ts.wall - ts.off ELSE ts.wall

(***************************************************************************)
(* The store: JacRuntime.exec_ctx.mem, the anchors in insertion order.     *)
(***************************************************************************)
JournalEntry(props) ==
  [cls |-> "JournalEntry", timestamp |-> props.timestamp, text |-> props.text,
   moods_detected |-> props.tags]

\* an Emotion node as log_mood spawns it; trend and trend_score are unset
\* until the analyzer writes them
Emotion(name, last_seen) ==
  [cls |-> "Emotion", name |-> name, valence |-> FZero, intensity |-> FZero,
   last_seen |-> last_seen, trend |-> "unset", trend_score |-> FZero]

Trigger(name) == [cls |-> "Trigger", name |-> name]

\* the tags that are Python strings; any other tag stands for a non-string value
StrTags == {"joy", "anxiety"}

isinstance_str(m) == m \in StrTags

RECURSIVE SumSeq(_)
SumSeq(q) == IF q = <<>> THEN 0 ELSE Head(q) + SumSeq(Tail(q))

\* [0] * (days + 1): one bucket too many
ZerosOneMore(days) == [i \in 1..(days + 1) |-> 0]

Zeros(days) == [i \in 1..days |-> 0]

\* the index of the first Emotion anchor named `name`, 0 when there is none
FindEmotion(m, name) ==
  LET hits == {i \in 1..Len(m) : m[i].cls = "Emotion" /\ m[i].name = name}
  IN IF hits = {} THEN 0 ELSE CHOOSE i \in hits : \A j \in hits : i <= j

(***************************************************************************)
(* trend_analyzer and its helpers, as functions of the store and of "now". *)
(***************************************************************************)
EmptyMap == [k \in {} |-> <<>>]

\* dict.setdefault(k, [0] * days), the dict returned
SetDefault(cm, k, days) == IF k \in DOMAIN cm THEN cm ELSE cm @@ (k :> Zeros(days))

RECURSIVE PreSeed(_, _, _, _)
\* the first scan: every Emotion anchor's name gets an all-zero array
PreSeed(m, i, cm, days) ==
  IF i > Len(m) THEN cm
  ELSE IF m[i].cls = "Emotion" THEN PreSeed(m, i + 1, SetDefault(cm, m[i].name, days), days)
  ELSE PreSeed(m, i + 1, cm, days)

\* (t.replace(hour=0, ...) - start).days
DayIdx(t, start) == (DayStart(t) - start) \div Day

\* start < t <= end: the window's first instant left out
InWindowOpenStart(t, start, end) == start < t /\ t <= end

\* start <= t <= end
InWindow(t, start, end) == start <= t /\ t <= end

\* day_idx < 0 or day_idx >= days: the entry is skipped
OutOfRange(day_idx, days) == day_idx < 0 \/ day_idx >= days

RECURSIVE BinMoods(_, _, _, _, _)
\* for m in moods: counts_map.setdefault(m, [0] * days)[day_idx] += 1
BinMoods(cm, moods, j, day_idx, days) ==
  IF j > Len(moods) THEN cm
  ELSE IF ~isinstance_str(moods[j]) THEN BinMoods(cm, moods, j + 1, day_idx, days)
  ELSE LET c == SetDefault(cm, moods[j], days)
       IN BinMoods([c EXCEPT ![moods[j]][day_idx + 1] = @ + 1], moods, j + 1, day_idx, days)

RECURSIVE BinEntries(_, _, _, _, _, _)
\* the second scan: every JournalEntry anchor in the window is binned by its day
BinEntries(m, i, cm, start, end, days) ==
  IF i > Len(m) THEN cm
  ELSE IF m[i].cls # "JournalEntry" \/ ~Parses(m[i].timestamp)
    THEN BinEntries(m, i + 1, cm, start, end, days)
  ELSE LET t == fromisoformat(m[i].timestamp)
           day_idx == DayIdx(t, start)
       IN IF ~InWindow(t, start, end) \/ OutOfRange(day_idx, days)
          THEN BinEntries(m, i + 1, cm, start, end, days)
          ELSE BinEntries(m, i + 1, BinMoods(cm, m[i].moods_detected, 1, day_idx, days),
                          start, end, days)

counts_by_emotion(m, start, end, days) ==
  BinEntries(m, 1, PreSeed(m, 1, EmptyMap, days), start, end, days)

\* sum(x * yy for x, yy in zip(range(n), y))
RECURSIVE SumXY(_, _)
SumXY(y, i) == IF i > Len(y) THEN 0 ELSE (i - 1) * y[i] + SumXY(y, i + 1)

\* the numerator's terms exchanged: the slope with its sign reversed
linear_slope_reversed(y) ==
  LET n     == Len(y)
      sx    == SumSeq([i \in 1..n |-> i - 1])
      sxx   == SumSeq([i \in 1..n |-> (i - 1) * (i - 1)])
      denom == n * sxx - sx * sx
  IN IF n = 0 \/ denom = 0 THEN FZero
     ELSE IntDiv(sx * SumSeq(y) - n * SumXY(y, 1), denom)

\* sum(xs) where sum(x * x for x in xs) belongs
linear_slope_sxx(y) ==
  LET n     == Len(y)
      sx    == SumSeq([i \in 1..n |-> i - 1])
      denom == n * sx - sx * sx
  IN IF n = 0 \/ denom = 0 THEN FZero
     ELSE IntDiv(n * SumXY(y, 1) - sx * SumSeq(y), denom)

\* least squares slope over the indices 0..n-1
linear_slope(y) ==
  LET n     == Len(y)
      sx    == SumSeq([i \in 1..n |-> i - 1])
      sy    == SumSeq(y)
      sxx   == SumSeq([i \in 1..n |-> (i - 1) * (i - 1)])
      sxy   == SumXY(y, 1)
      denom == n * sxx - sx * sx
  IN IF n = 0 THEN FZero
     ELSE IF denom = 0 THEN FZero
     ELSE IntDiv(n * sxy - sx * sy, denom)

\* the literal 0.15: the double nearest to 15/100
Threshold == IntDiv(15, 100)

\* >= and <= in place of > and <
ClassifyInclusive(norm_slope) ==
  IF ~FLt(norm_slope, Threshold) THEN "rising"
  ELSE IF ~FGt(norm_slope, FNeg(Threshold)) THEN "falling"
  ELSE "stable"

Classify(norm_slope) ==
  IF FGt(norm_slope, Threshold) THEN "rising"
  ELSE IF FLt(norm_slope, FNeg(Threshold)) THEN "falling"
  ELSE "stable"

\* one entry of stats
Stat(counts) ==
  LET slope == linear_slope(counts)
      mean  == IntDiv(SumSeq(counts), IF Len(counts) > 1 THEN Len(counts) ELSE 1)
      norm_slope == FDiv(slope, FMax(FOne, mean))
  IN [slope |-> slope, mean |-> mean, norm_slope |-> norm_slope,
      trend |-> Classify(norm_slope)]

\* without .replace(hour=0, ...): the window starts at now's time of day
window_start_unaligned(now, window_days) == now - window_days * Day

window_start(now, window_days) == DayStart(now - window_days * Day)

compare_start(now, window_days, compare_days) ==
  DayStart(window_start(now, window_days) - compare_days * Day)

\* without the second taken off: the comparison window ends where the current starts
PrevEndAtStart(now, window_days) == window_start(now, window_days)

\* the upper bound of the comparison window
PrevEnd(now, window_days) == window_start(now, window_days) - Second

current_counts(m, now, window_days) ==
  counts_by_emotion(m, window_start(now, window_days), now, window_days)

prev_counts(m, now, window_days, compare_days) ==
  counts_by_emotion(m, compare_start(now, window_days, compare_days),
                    PrevEnd(now, window_days), compare_days)

\* the write-back: for each emotion of stats, the first Emotion anchor of that name
\* gets the trend and the score
WriteBack(m, stats) ==
  [i \in 1..Len(m) |->
     IF m[i].cls = "Emotion" /\ m[i].name \in DOMAIN stats /\ FindEmotion(m, m[i].name) = i
     THEN [m[i] EXCEPT !.trend = stats[m[i].name].trend,
                       !.trend_score = stats[m[i].name].norm_slope]
     ELSE m[i]]

\* the value returned, with the store it leaves
trend_analyzer(m, now, window_days, compare_days) ==
  LET current == current_counts(m, now, window_days)
      prev    == prev_counts(m, now, window_days, compare_days)
      stats   == [e \in DOMAIN current |-> Stat(current[e])]
  IN [current |-> current, prev |-> prev, stats |-> stats, mem |-> WriteBack(m, stats)]

(***************************************************************************)
(* The interpreter behind log_mood: LLMAdapter with its default provider,  *)
(* LocalLLM, and its sliding-window rate limiter.                          *)
(***************************************************************************)
\* the search patterns of LocalLLM.interpret that occur in the lower-cased text
Patterns(text) ==
  IF text = "I'm stressed about a deadline." THEN {"stressed", "deadline"}
  ELSE IF text = "I want to die" THEN {"want to die", "i want to die"}
  ELSE IF text = "So happy today, yet I want to end my life" THEN {"happy", "end my life"}
  ELSE IF text = "Worried sick, I might hurt myself" THEN {"worried", "hurt myself"}
  ELSE {}

\* BYLLM_RATE_PER_MIN's default
DefaultRatePerMin == 30

LocalLLM_interpret(text) ==
  LET has == Patterns(text)
      primary == (IF has \cap {"stressed", "anx", "worried"} # {} THEN <<"anxiety">> ELSE <<>>)
                 \o (IF has \cap {"happy", "great", "joy"} # {} THEN <<"joy">> ELSE <<>>)
  IN [primary_emotions |-> IF primary = <<>> THEN <<"neutral">> ELSE primary,
      triggers |-> IF has \cap {"deadline", "due"} # {} THEN <<"deadline">> ELSE <<>>,
      self_harm_risk |-> has \cap {"suicide", "kill myself", "want to die", "i want to die",
                                   "end my life", "hurt myself", "self harm"} # {}]

\* what a call of genai.generate_text comes to: an exception, a text without a JSON
\* block, a block json.loads rejects, a JSON object whose safety_flags dict() rejects,
\* or a JSON object with its emotions and its self_harm_risk flag
GeminiReplies ==
  {[kind |-> k, primary |-> <<>>, risk |-> FALSE] :
     k \in {"error", "no_json", "bad_json", "bad_flags"}}
    \cup {[kind |-> "ok", primary |-> pr, risk |-> rk] :
            pr \in {<<>>, <<"joy">>}, rk \in BOOLEAN}

\* GoogleGeminiClient.interpret raises: dict(out.get("safety_flags")) does
GeminiRaises(reply) == reply.kind = "bad_flags"

\* GoogleGeminiClient.interpret, when it returns
GoogleGeminiClient_interpret(text, reply) ==
  IF reply.kind \in {"error", "no_json", "bad_json"} THEN LocalLLM_interpret(text)
  ELSE [primary_emotions |-> IF reply.primary = <<>> THEN <<"neutral">> ELSE reply.primary,
        triggers |-> <<>>,
        self_harm_risk |-> LocalLLM_interpret(text).self_harm_risk \/ reply.risk]

\* self.client.interpret(text), with the adapter's fallback to LocalLLM on an exception
ClientInterpret(client, text, reply) ==
  IF client = "local" THEN LocalLLM_interpret(text)
  ELSE IF GeminiRaises(reply) THEN LocalLLM_interpret(text)
  ELSE GoogleGeminiClient_interpret(text, reply)

RECURSIVE DropOld(_, _)
\* while self._req_times and self._req_times[0] < cutoff: popleft()
DropOld(times, cutoff) ==
  IF times # <<>> /\ Head(times) < cutoff THEN DropOld(Tail(times), cutoff) ELSE times

\* RateLimiter.allow at time t: <<allowed, the deque it leaves>>
allow(times, limit, t) ==
  LET kept == DropOld(times, t - 60 * Second)
  IN IF Len(kept) < limit THEN <<TRUE, Append(kept, t)>> ELSE <<FALSE, kept>>

(***************************************************************************)
(* log_mood, as a function of the store, the limiter and the entry.        *)
(***************************************************************************)
\* what follows the query of the tag loop: the anchor found (0: none) is touched, or
\* one is spawned
Ensure(m, found, tag, timestamp) ==
  IF found = 0 THEN Append(m, Emotion(tag, timestamp))
  ELSE [m EXCEPT ![found].last_seen = timestamp]

\* one pass of the tag loop: the Emotion anchor of the tag is created or touched
EnsureEmotion(m, tag, timestamp) == Ensure(m, FindEmotion(m, tag), tag, timestamp)

RECURSIVE TagLoop(_, _, _, _, _)
\* <<the store, created_emotions>> after the tags from the j-th on
TagLoop(m, tags, j, timestamp, created) ==
  IF j > Len(tags) THEN <<m, created>>
  ELSE TagLoop(EnsureEmotion(m, tags[j], timestamp), tags, j + 1, timestamp,
               IF FindEmotion(m, tags[j]) = 0 THEN Append(created, tags[j]) ELSE created)

RECURSIVE SpawnTriggers(_, _)
SpawnTriggers(m, triggers) ==
  IF triggers = <<>> THEN m ELSE SpawnTriggers(Append(m, Trigger(Head(triggers))), Tail(triggers))

\* the result and what it leaves: raised when interpret_input raises (rate limit);
\* itp is what the adapter's client answers for the text
log_mood_with(m, times, limit, t, entry, itp) ==
  LET m1  == Append(m, JournalEntry(entry))
      lp  == TagLoop(m1, entry.tags, 1, entry.timestamp, <<>>)
      ok  == allow(times, limit, t)
  IN IF entry.text = ""
     THEN [mem |-> lp[1], req_times |-> times, raised |-> FALSE,
           created_emotions |-> lp[2], triggers |-> <<>>]
     ELSE IF ~ok[1]
     THEN [mem |-> lp[1], req_times |-> ok[2], raised |-> TRUE,
           created_emotions |-> lp[2], triggers |-> <<>>]
     ELSE [mem |-> SpawnTriggers(lp[1], itp.triggers), req_times |-> ok[2], raised |-> FALSE,
           created_emotions |-> lp[2], triggers |-> itp.triggers]

\* log_mood with the default provider
log_mood(m, times, limit, t, entry) ==
  log_mood_with(m, times, limit, t, entry, LocalLLM_interpret(entry.text))

(***************************************************************************)
(* State.                                                                  *)
(***************************************************************************)
VARIABLES
  ctx,        \* JacRuntime.exec_ctx is not None
  mem,        \* JacRuntime.exec_ctx.mem: the anchors, in insertion order
  now,        \* the clock read by datetime.now and time.time
  req_times,  \* _adapter.rate_limiter._req_times
  per_min,    \* _adapter.rate_limiter.per_min
  out,        \* what the last call of log_mood or trend_analyzer returned
  thr,        \* the log_mood calls under way on the request threads
  client      \* _adapter.client: "local" or "google_gemini" (BYLLM_PROVIDER)

vars == <<ctx, mem, now, req_times, per_min, out, thr, client>>

NoOut == [op |-> "none"]

\* what callers pass to log_mood at time t: the instant itself or the same time of
\* day on an earlier day, as isoformat() writes it; the same with a UTC offset of one
\* hour; no timestamp at all
EntryInputs(t) ==
  {[timestamp |-> isoformat(t - k * Day), tags |-> tags, text |-> ""] :
     k \in 0..MaxBack, tags \in {<<"joy">>, <<"anxiety", "anxiety">>}}
    \cup {[timestamp |-> [kind |-> "aware", wall |-> t - Day + 3600 * Second,
                          off |-> 3600 * Second],
           tags |-> <<"joy", "#7">>, text |-> "I'm stressed about a deadline."],
          [timestamp |-> NoTimestamp, tags |-> <<"joy">>, text |-> ""]}

JournalCount(m) == Cardinality({i \in 1..Len(m) : m[i].cls = "JournalEntry"})

\* the request threads of the HTTP layer
MaxThreads == 2

Threads == 1..MaxThreads

Idle == [pc |-> "idle", entry |-> [timestamp |-> NoTimestamp, tags |-> <<>>, text |-> ""],
         j |-> 0, found |-> 0, created |-> <<>>]

Init ==
  /\ thr = [i \in Threads |-> Idle]
  /\ ctx = FALSE
  /\ mem = <<>>
  /\ now \in {FirstDay * Day + o : o \in Offsets}
  /\ req_times = <<>>
  /\ per_min = DefaultRatePerMin
  /\ client = "local"
  /\ out = NoOut

\* init_engine, as the service runs it: at startup, or by the first request that
\* finds no context; a fresh context, with an empty store
InitEngine ==
  /\ ~ctx
  /\ ctx' = TRUE
  /\ mem' = <<>>
  /\ out' = NoOut
  /\ UNCHANGED <<now, req_times, per_min, thr, client>>

\* log_mood(entry), run to completion; the store is let to hold up to limit entries
LogMood(entry, limit) ==
  /\ ctx
  /\ \A i \in Threads : thr[i].pc = "idle"
  /\ JournalCount(mem) < limit
  /\ \E r \in {log_mood(mem, req_times, per_min, now, entry)} :
        /\ mem' = r.mem
        /\ req_times' = r.req_times
        /\ out' = [op |-> "log_mood", raised |-> r.raised,
                   created_emotions |-> r.created_emotions, triggers |-> r.triggers]
  /\ UNCHANGED <<ctx, now, per_min, thr, client>>

\* whether the call before this one was trend_analyzer too, with the same arguments,
\* earlier on the same UTC day
Again(window_days, compare_days) ==
  /\ out.op = "trend_analyzer"
  /\ out.window_days = window_days
  /\ out.compare_days = compare_days
  /\ DayStart(out.now) = DayStart(now)
  /\ out.now < now

\* trend_analyzer(window_days, compare_days), run to completion
TrendAnalyzer(window_days, compare_days) ==
  /\ IF ~ctx
     THEN /\ out' = [op |-> "trend_analyzer", window_days |-> window_days,
                     compare_days |-> compare_days, now |-> now,
                     again |-> Again(window_days, compare_days),
                     current |-> EmptyMap, prev |-> EmptyMap, stats |-> EmptyMap]
          /\ mem' = mem
     ELSE \E r \in {trend_analyzer(mem, now, window_days, compare_days)} :
             /\ out' = [op |-> "trend_analyzer", window_days |-> window_days,
                        compare_days |-> compare_days, now |-> now,
                        again |-> Again(window_days, compare_days),
                        current |-> r.current, prev |-> r.prev, stats |-> r.stats]
             /\ mem' = r.mem
  /\ UNCHANGED <<ctx, now, req_times, per_min, thr, client>>

\* time passes, to the next instant at which the clock is read
Tick ==
  /\ \E t \in Instants :
       /\ t > now
       /\ \A u \in Instants : u > now => t <= u
       /\ now' = t
  /\ UNCHANGED <<ctx, mem, req_times, per_min, out, thr, client>>

Next ==
  \/ InitEngine
  \/ \E entry \in EntryInputs(now) : LogMood(entry, MaxEntries)
  \/ \E wd \in 1..MaxWindow, cd \in 1..MaxCompare : TrendAnalyzer(wd, cd)
  \/ Tick

Spec == Init /\ [][Next]_vars

(***************************************************************************)
(* The scenario of test_trend_detection_rising: "anxiety" once, twice and  *)
(* four times, two days ago, one day ago and now; window and comparison    *)
(* of three days.                                                          *)
(***************************************************************************)
ScenarioDays == 3

ScenarioEntries == 3

Repeat(tag, n) == [i \in 1..n |-> tag]

\* <<days ago, times tagged>>: the three entries of the test, and two of a falling run
ScenarioShapes == {<<2, 1>>, <<1, 2>>, <<0, 4>>, <<2, 4>>, <<0, 1>>}

ScenarioInputs(t) ==
  {[timestamp |-> isoformat(t - sh[1] * Day), tags |-> Repeat("anxiety", sh[2]), text |-> ""] :
     sh \in ScenarioShapes}

NextRising ==
  \/ InitEngine
  \/ \E entry \in ScenarioInputs(now) : LogMood(entry, ScenarioEntries)
  \/ TrendAnalyzer(ScenarioDays, ScenarioDays)
  \/ Tick

SpecRising == Init /\ [][NextRising]_vars

(***************************************************************************)
(* log_mood on the request threads of the HTTP layer (the handlers are     *)
(* plain functions, which the framework runs on a thread pool): a call is  *)
(* a sequence of store operations, and the calls of two threads interleave *)
(* between them.  The entries are stamped by post_entry with the instant   *)
(* of the request; the calls that interleave are of the same instant.      *)
(***************************************************************************)
ThreadInputs(t) ==
  {[timestamp |-> isoformat(t), tags |-> tags, text |-> text] :
     tags \in {<<"joy">>, <<"anxiety", "joy">>}, text \in {""}}
    \cup {[timestamp |-> isoformat(t), tags |-> <<"joy">>,
           text |-> "I'm stressed about a deadline."]}

\* the JournalEntry node is spawned and set in the store
T_Store(i, entry) ==
  /\ ctx
  /\ thr[i].pc = "idle"
  /\ JournalCount(mem) < MaxEntries
  /\ mem' = Append(mem, JournalEntry(entry))
  /\ thr' = [thr EXCEPT ![i] = [pc |-> IF entry.tags = <<>> THEN "interpret" ELSE "query",
                                 entry |-> entry, j |-> 1, found |-> 0, created |-> <<>>]]
  /\ UNCHANGED <<ctx, now, req_times, per_min, out, client>>

\* the store is queried for the Emotion anchor of the j-th tag
T_Query(i) ==
  /\ thr[i].pc = "query"
  /\ thr' = [thr EXCEPT ![i].pc = "ensure",
                        ![i].found = FindEmotion(mem, thr[i].entry.tags[thr[i].j])]
  /\ UNCHANGED <<ctx, mem, now, req_times, per_min, out, client>>

\* the anchor found is touched, or one is spawned; the loop goes on to the next tag
T_Ensure(i) ==
  /\ thr[i].pc = "ensure"
  /\ mem' = Ensure(mem, thr[i].found, thr[i].entry.tags[thr[i].j], thr[i].entry.timestamp)
  /\ thr' = [thr EXCEPT ![i].pc = IF thr[i].j < Len(thr[i].entry.tags)
                                   THEN "query" ELSE "interpret",
                        ![i].j = thr[i].j + 1,
                        ![i].found = 0,
                        ![i].created = IF thr[i].found = 0
                                       THEN Append(thr[i].created, thr[i].entry.tags[thr[i].j])
                                       ELSE thr[i].created]
  /\ UNCHANGED <<ctx, now, req_times, per_min, out, client>>

\* the text, if any, is interpreted and the triggers are spawned; the call returns
T_Return(i) ==
  /\ thr[i].pc = "interpret"
  /\ LET text == thr[i].entry.text
         ok   == allow(req_times, per_min, now)
         itp  == LocalLLM_interpret(text)
     IN IF text = ""
        THEN /\ out' = [op |-> "log_mood", raised |-> FALSE,
                        created_emotions |-> thr[i].created, triggers |-> <<>>]
             /\ UNCHANGED <<mem, req_times>>
        ELSE IF ~ok[1]
        THEN /\ out' = [op |-> "log_mood", raised |-> TRUE,
                        created_emotions |-> thr[i].created, triggers |-> <<>>]
             /\ req_times' = ok[2]
             /\ mem' = mem
        ELSE /\ out' = [op |-> "log_mood", raised |-> FALSE,
                        created_emotions |-> thr[i].created, triggers |-> itp.triggers]
             /\ req_times' = ok[2]
             /\ mem' = SpawnTriggers(mem, itp.triggers)
  /\ thr' = [thr EXCEPT ![i] = Idle]
  /\ UNCHANGED <<ctx, now, per_min, client>>

\* time passes between the requests
TickBetween ==
  /\ \A i \in Threads : thr[i].pc = "idle"
  /\ Tick

NextThreads ==
  \/ InitEngine
  \/ \E i \in Threads, entry \in ThreadInputs(now) : T_Store(i, entry)
  \/ \E i \in Threads : T_Query(i)
  \/ \E i \in Threads : T_Ensure(i)
  \/ \E i \in Threads : T_Return(i)
  \/ \E wd \in 1..MaxWindow, cd \in 1..MaxCompare : TrendAnalyzer(wd, cd)
  \/ TickBetween

SpecThreads == Init /\ [][NextThreads]_vars

(***************************************************************************)
(* The statistics of one count array, as a function: the arrays are drawn  *)
(* by the initial condition, and the one step applies the function.        *)
(***************************************************************************)
MaxLen == 4

MaxCount == 5

CountArrays == UNION {[1..n -> 0..MaxCount] : n \in 1..MaxLen}

InitStats ==
  /\ ctx = FALSE
  /\ mem = <<>>
  /\ now = FirstDay * Day
  /\ req_times = <<>>
  /\ per_min = DefaultRatePerMin
  /\ client = "local"
  /\ thr = [i \in Threads |-> Idle]
  /\ out \in {[op |-> "counts", counts |-> y] : y \in CountArrays}

ApplyStat ==
  /\ out.op = "counts"
  /\ out' = [op |-> "stat", counts |-> out.counts, stat |-> Stat(out.counts)]
  /\ UNCHANGED <<ctx, mem, now, req_times, per_min, thr, client>>

SpecStats == InitStats /\ [][ApplyStat]_vars

(***************************************************************************)
(* _linear_slope as a function of a list of counts, the empty list and the *)
(* lists of one element among them.                                        *)
(***************************************************************************)
MaxSlopeLen == 4

MaxY == 6

SlopeInputs == UNION {[1..n -> 0..MaxY] : n \in 0..MaxSlopeLen}

InitSlope ==
  /\ ctx = FALSE
  /\ mem = <<>>
  /\ now = FirstDay * Day
  /\ req_times = <<>>
  /\ per_min = DefaultRatePerMin
  /\ client = "local"
  /\ thr = [i \in Threads |-> Idle]
  /\ out \in {[op |-> "y", y |-> y] : y \in SlopeInputs}

ApplySlope ==
  /\ out.op = "y"
  /\ out' = [op |-> "slope", y |-> out.y, slope |-> linear_slope(out.y)]
  /\ UNCHANGED <<ctx, mem, now, req_times, per_min, thr, client>>

SpecSlope == InitSlope /\ [][ApplySlope]_vars

(***************************************************************************)
(* Stores with malformed records: entries without a timestamp, with an     *)
(* empty or an unparseable one, or with tags that are not strings, next to *)
(* well-formed entries of the day before, with and without tzinfo.         *)
(***************************************************************************)
MalformedInputs(t) ==
  {[timestamp |-> ts, tags |-> <<"joy", "anxiety">>, text |-> ""] :
     ts \in {NoTimestamp, EmptyTimestamp, Damaged(t - Day)}}
    \cup {[timestamp |-> isoformat(t - Day), tags |-> <<"anxiety", "#7", "anxiety">>, text |-> ""],
          [timestamp |-> [kind |-> "naive", wall |-> t - Day, off |-> 0],
           tags |-> <<"joy">>, text |-> ""]}

NextMalformed ==
  \/ InitEngine
  \/ \E entry \in MalformedInputs(now) : LogMood(entry, MaxEntries)
  \/ \E wd \in 1..MaxWindow, cd \in 1..MaxCompare : TrendAnalyzer(wd, cd)
  \/ Tick

SpecMalformed == Init /\ [][NextMalformed]_vars

(***************************************************************************)
(* POST /entry, the whole handler: log_mood, trend_analyzer with its       *)
(* default windows, interpret_input a second time, craft_response.  The    *)
(* limiter has served some requests in the last minute; the provider is    *)
(* the local one or Gemini, whose answers are not in the program's hands.  *)
(***************************************************************************)
\* trend_analyzer's default window_days and compare_days
DefaultWindow == 7

Range(q) == {q[i] : i \in 1..Len(q)}

\* craft_response: the template chosen, and the suggestions as <<type, id or prompt>>
craft_response(emotions, self_harm_risk) ==
  IF self_harm_risk
  THEN [message |-> "crisis", suggestions |-> <<(<<"resource", "crisis_hotline">>)>>]
  ELSE IF "anxiety" \in Range(emotions)
  THEN [message |-> "anxiety",
        suggestions |-> <<(<<"breathing", "s:breath_4_4">>), (<<"journaling", "manageable">>)>>]
  ELSE IF "joy" \in Range(emotions)
  THEN [message |-> "joy", suggestions |-> <<(<<"journaling", "good">>)>>]
  ELSE [message |-> "thanks", suggestions |-> <<>>]

\* the texts of the requests
Texts ==
  {"", "I'm stressed about a deadline.", "I want to die",
   "So happy today, yet I want to end my life", "Worried sick, I might hurt myself"}

\* the answers the provider may give to one call
Replies == IF client = "local" THEN {[kind |-> "error", primary |-> <<>>, risk |-> FALSE]}
           ELSE GeminiReplies

\* the response of a request that ended in HTTP 500
ServerError(text) == [op |-> "post_entry", status |-> 500, text |-> text,
                      message |-> "", suggestions |-> <<>>]

\* post_entry; reply1 and reply2 are the provider's answers to the two calls
PostEntry(text, tags, reply1) ==
  /\ \A i \in Threads : thr[i].pc = "idle"
  /\ JournalCount(mem) < MaxEntries
  /\ ctx' = TRUE
  /\ \E r \in {log_mood_with(IF ctx THEN mem ELSE <<>>, req_times, per_min, now,
                              [timestamp |-> isoformat(now), tags |-> tags, text |-> text],
                              ClientInterpret(client, text, reply1))} :
       IF r.raised
       THEN /\ mem' = r.mem
            /\ req_times' = r.req_times
            /\ out' = ServerError(text)
       ELSE \E ta \in {trend_analyzer(r.mem, now, DefaultWindow, DefaultWindow)},
               ok \in {allow(r.req_times, per_min, now)} :
              /\ mem' = ta.mem
              /\ req_times' = ok[2]
              /\ \E reply2 \in Replies :
                   out' = IF ~ok[1] THEN ServerError(text)
                          ELSE LET itp  == ClientInterpret(client, text, reply2)
                                   resp == craft_response(itp.primary_emotions,
                                                          itp.self_harm_risk)
                               IN [op |-> "post_entry", status |-> 200, text |-> text,
                                   message |-> resp.message, suggestions |-> resp.suggestions]
  /\ UNCHANGED <<now, per_min, thr, client>>

\* how many calls the limiter has let through in the last minute
ServedBefore == {0} \cup ((DefaultRatePerMin - 2)..DefaultRatePerMin)

InitApi ==
  /\ thr = [i \in Threads |-> Idle]
  /\ ctx = FALSE
  /\ mem = <<>>
  /\ now \in {FirstDay * Day + o : o \in Offsets}
  /\ req_times \in {[i \in 1..k |-> FirstDay * Day - Second] : k \in ServedBefore}
  /\ per_min = DefaultRatePerMin
  /\ client \in {"local", "google_gemini"}
  /\ out = NoOut

NextApi ==
  \/ InitEngine
  \/ \E text \in Texts, tags \in {<<>>, <<"joy">>}, reply1 \in Replies :
       PostEntry(text, tags, reply1)
  \/ Tick

SpecApi == InitApi /\ [][NextApi]_vars

(***************************************************************************)
(* What the claims speak of.                                               *)
(***************************************************************************)
Analyzed == out.op = "trend_analyzer" /\ ctx

IsJournal(a) == a.cls = "JournalEntry"

JournalEntries(m) == SelectSeq(m, IsJournal)

\* the store without its i-th anchor
Without(m, i) == [j \in 1..(Len(m) - 1) |-> IF j < i THEN m[j] ELSE m[j + 1]]

\* how many times g occurs in a tag list
Occurrences(g, moods) == Cardinality({j \in 1..Len(moods) : moods[j] = g})

\* result[g][i], 0 when g is no key
Bucket(result, g, i) == IF g \in DOMAIN result THEN result[g][i + 1] ELSE 0

Total(result, g) == IF g \in DOMAIN result THEN SumSeq(result[g]) ELSE 0

RECURSIVE OccurrencesOn(_, _, _, _, _, _)
\* the occurrences of g in the first k anchors that are journal entries with a UTC
\* instant in [start, end] on the i-th UTC day after the day of start
OccurrencesOn(m, k, g, start, end, i) ==
  IF k = 0 THEN 0
  ELSE OccurrencesOn(m, k - 1, g, start, end, i)
       + (IF /\ IsJournal(m[k])
             /\ m[k].timestamp.kind \in {"aware", "naive"}
             /\ LET t == IF m[k].timestamp.kind = "aware"
                         THEN m[k].timestamp.wall - m[k].timestamp.off
                         ELSE m[k].timestamp.wall
                IN start <= t /\ t <= end /\ (t \div Day) - (start \div Day) = i
          THEN Occurrences(g, m[k].moods_detected) ELSE 0)

\* the bounds of the two windows of the call that returned out
CurStart == window_start(out.now, out.window_days)

CmpStart == compare_start(out.now, out.window_days, out.compare_days)

CmpEnd == PrevEnd(out.now, out.window_days)

\* C1 (as claimed): one entry, tags ["joy"], empty text, stamped with the instant of
\* the call; trend_analyzer(window_days=1) returns current["joy"] == [1], trend stable
C1_SingleJoyEntryCounted ==
  (/\ Analyzed
   /\ out.window_days = 1
   /\ JournalEntries(mem) =
        <<JournalEntry([timestamp |-> isoformat(out.now), text |-> "", tags |-> <<"joy">>])>>)
  => /\ "joy" \in DOMAIN out.current
     /\ out.current["joy"] = <<1>>
     /\ out.stats["joy"].trend = "stable"

\* C2 (as claimed): an entry stamped with the instant of its ingestion is counted by
\* the analyzer pass that follows: the sum of current[g] is larger by the occurrences
\* of g in the entry than it is without the entry.  (An entry whose timestamp is the
\* instant of the pass was ingested at that instant: timestamps are never later than
\* the ingestion, and the pass never earlier.)
C2_IngestedEntryVisible ==
  Analyzed =>
    \A i \in 1..Len(mem) :
      (IsJournal(mem[i]) /\ mem[i].timestamp = isoformat(out.now)) =>
        \A g \in StrTags :
          Occurrences(g, mem[i].moods_detected) > 0 =>
            Total(out.current, g)
              = Total(current_counts(Without(mem, i), out.now, out.window_days), g)
                + Occurrences(g, mem[i].moods_detected)

\* C3: every array of current has exactly window_days integer entries and every array
\* of prev exactly compare_days
C3_ArrayLengths ==
  out.op = "trend_analyzer" =>
    /\ \A e \in DOMAIN out.current :
         /\ DOMAIN out.current[e] = 1..out.window_days
         /\ \A i \in 1..out.window_days : out.current[e][i] \in Nat
    /\ \A e \in DOMAIN out.prev :
         /\ DOMAIN out.prev[e] = 1..out.compare_days
         /\ \A i \in 1..out.compare_days : out.prev[e][i] \in Nat

C3_Witness ==
  /\ Analyzed
  /\ out.window_days = 2
  /\ out.compare_days = 1
  /\ \E e \in DOMAIN out.current : out.current[e] = <<0, 2>>
  /\ \E e \in DOMAIN out.prev : out.prev[e] = <<1>>

\* C4: for both calls of counts_by_emotion, every string tag g and every index i,
\* result[g][i] is the number of occurrences of g in the journal entries whose UTC
\* instant is in [start, end] and on the i-th day after start's; nothing else counts
C4_BucketsCountOccurrences ==
  Analyzed =>
    \A g \in StrTags :
      /\ \A i \in 0..(out.window_days - 1) :
           Bucket(out.current, g, i) = OccurrencesOn(mem, Len(mem), g, CurStart, out.now, i)
      /\ \A i \in 0..(out.compare_days - 1) :
           Bucket(out.prev, g, i) = OccurrencesOn(mem, Len(mem), g, CmpStart, CmpEnd, i)
      /\ (g \notin DOMAIN out.current) =>
           /\ FindEmotion(mem, g) = 0
           /\ \A k \in 1..Len(mem) : IsJournal(mem[k]) => Occurrences(g, mem[k].moods_detected) = 0

\* an entry exactly at the start of the current window, with a repeated tag, and one
\* written with a UTC offset, both counted
C4_Witness ==
  /\ Analyzed
  /\ \E k \in 1..Len(mem) :
       /\ IsJournal(mem[k])
       /\ mem[k].timestamp = isoformat(CurStart)
       /\ mem[k].moods_detected = <<"anxiety", "anxiety">>
  /\ \E k \in 1..Len(mem) : IsJournal(mem[k]) /\ mem[k].timestamp.off # 0
  /\ out.current["anxiety"][1] = 2
  /\ \E i \in 1..out.window_days : out.current["joy"][i] = 1

\* whether the i-th anchor is counted by a call of counts_by_emotion
Counted(m, i, start, end, days) ==
  counts_by_emotion(m, start, end, days) # counts_by_emotion(Without(m, i), start, end, days)

CountedInCurrent(i) == Counted(mem, i, CurStart, out.now, out.window_days)

CountedInPrev(i) == Counted(mem, i, CmpStart, CmpEnd, out.compare_days)

\* C5: the comparison window ends strictly before the current window starts, and no
\* journal entry is counted both in current and in prev
C5_WindowsDisjoint ==
  Analyzed =>
    /\ CmpEnd < CurStart
    /\ \A i \in 1..Len(mem) : IsJournal(mem[i]) => ~(CountedInCurrent(i) /\ CountedInPrev(i))

\* one entry in each window, the one of prev at the very end of its window
C5_Witness ==
  /\ Analyzed
  /\ \E i, j \in 1..Len(mem) :
       /\ IsJournal(mem[i]) /\ CountedInCurrent(i)
       /\ IsJournal(mem[j]) /\ CountedInPrev(j)
       /\ mem[j].timestamp = isoformat(CmpEnd)

\* C6 (as claimed): every journal entry with compare_start <= t < window_start is
\* counted in prev, once for each occurrence of each of its string tags
C6_PrevCoversUpToWindowStart ==
  Analyzed =>
    \A i \in 1..Len(mem) :
      (/\ IsJournal(mem[i])
       /\ Parses(mem[i].timestamp)
       /\ CmpStart <= fromisoformat(mem[i].timestamp)
       /\ fromisoformat(mem[i].timestamp) < CurStart) =>
        \A g \in StrTags :
          Total(out.prev, g)
            = Total(prev_counts(Without(mem, i), out.now, out.window_days, out.compare_days), g)
              + Occurrences(g, mem[i].moods_detected)

\* C9: a second call with the same arguments on the same UTC day, with no log_mood in
\* between, returns the same current and the same stats
C9_Idempotent ==
  [][(/\ out.op = "trend_analyzer"
      /\ out'.op = "trend_analyzer"
      /\ out'.window_days = out.window_days
      /\ out'.compare_days = out.compare_days
      /\ DayStart(out'.now) = DayStart(out.now))
     => (out'.current = out.current /\ out'.stats = out.stats)]_vars

\* the second of two such calls, at a later instant, with an entry counted and a trend
\* written back by the first
C9_Witness ==
  /\ Analyzed
  /\ out.again
  /\ \E e \in DOMAIN out.current : SumSeq(out.current[e]) > 0
  /\ \E i \in 1..Len(mem) : mem[i].cls = "Emotion" /\ mem[i].trend = "rising"
\* the three entries of the scenario, logged at the instant b, in the order of the test
ScenarioStore(m, b) ==
  JournalEntries(m) =
    <<JournalEntry([timestamp |-> isoformat(b - 2 * Day), text |-> "",
                    tags |-> Repeat("anxiety", 1)]),
      JournalEntry([timestamp |-> isoformat(b - Day), text |-> "",
                    tags |-> Repeat("anxiety", 2)]),
      JournalEntry([timestamp |-> isoformat(b), text |-> "",
                    tags |-> Repeat("anxiety", 4)])>>

\* C7: with "anxiety" logged once, twice and four times at now-2 days, now-1 day and
\* now, trend_analyzer(window_days=3, compare_days=3), called at that instant or
\* later on that day, returns stats with "anxiety", trend "rising"
C7_ScenarioRising ==
  (/\ Analyzed
   /\ out.window_days = ScenarioDays
   /\ out.compare_days = ScenarioDays
   /\ \E b \in Instants : b <= out.now /\ DayStart(b) = DayStart(out.now) /\ ScenarioStore(mem, b))
  => /\ "anxiety" \in DOMAIN out.stats
     /\ out.stats["anxiety"].trend = "rising"

C7_Witness ==
  /\ Analyzed
  /\ out.window_days = ScenarioDays
  /\ out.compare_days = ScenarioDays
  /\ \E b \in Instants : b < out.now /\ DayStart(b) = DayStart(out.now) /\ ScenarioStore(mem, b)
  /\ out.stats["anxiety"].trend = "rising"
  /\ \E i \in 1..Len(mem) : mem[i].cls = "Emotion" /\ mem[i].trend = "rising"

\* C8 (as claimed): a call of trend_analyzer leaves the set of records, every
\* JournalEntry and Trigger, and the name, valence, intensity and last_seen of every
\* Emotion as they were, and after it every Emotion record whose name is a key of
\* stats has the trend and the norm_slope of stats
C8_WriteBackFrame ==
  [][((\E wd \in 1..MaxWindow, cd \in 1..MaxCompare : TrendAnalyzer(wd, cd)) /\ ctx)
     => /\ Len(mem') = Len(mem)
        /\ \A i \in 1..Len(mem) :
             IF mem[i].cls = "Emotion"
             THEN /\ mem'[i] = [mem[i] EXCEPT !.trend = mem'[i].trend,
                                               !.trend_score = mem'[i].trend_score]
                  /\ mem[i].name \in DOMAIN out'.stats =>
                       /\ mem'[i].trend = out'.stats[mem[i].name].trend
                       /\ mem'[i].trend_score = out'.stats[mem[i].name].norm_slope
             ELSE mem'[i] = mem[i]]_vars

\* C10: mean is the arithmetic mean, norm_slope is slope / max(1.0, mean), the trend
\* is "rising" exactly when norm_slope > 0.15, "falling" exactly when norm_slope <
\* -0.15, "stable" otherwise: so at exactly 0.15 and -0.15, and for an array of zeros
C10_Classifier ==
  out.op = "stat" =>
    LET y  == out.counts
        st == out.stat
    IN /\ st.slope = linear_slope(y)
       /\ st.mean = IntDiv(SumSeq(y), Len(y))
       /\ st.norm_slope = FDiv(st.slope, IF FGt(st.mean, FOne) THEN st.mean ELSE FOne)
       /\ st.trend \in {"rising", "falling", "stable"}
       /\ st.trend = "rising" <=> FGt(st.norm_slope, IntDiv(15, 100))
       /\ st.trend = "falling" <=> FLt(st.norm_slope, FNeg(IntDiv(15, 100)))
       /\ (st.norm_slope = IntDiv(15, 100) \/ st.norm_slope = FNeg(IntDiv(15, 100)))
            => st.trend = "stable"
       /\ (\A i \in 1..Len(y) : y[i] = 0) => st.trend = "stable"

\* a norm_slope of exactly 0.15, classified
C10_Witness ==
  /\ out.op = "stat"
  /\ out.stat.norm_slope = IntDiv(15, 100)
  /\ out.stat.trend = "stable"

\* n * sum(x * x) - sum(x) ** 2 over x = 0..n-1: the divisor of _linear_slope
SlopeDenom(n) ==
  n * SumSeq([i \in 1..n |-> (i - 1) * (i - 1)])
    - SumSeq([i \in 1..n |-> i - 1]) * SumSeq([i \in 1..n |-> i - 1])

WellStamped(a) == IsJournal(a) => a.timestamp.kind \in {"aware", "naive"}

\* the store with the journal entries of missing, empty or unparseable timestamp removed
WellFormed(m) == SelectSeq(m, WellStamped)

\* every bucket of the keys that are not strings is zero
NonStringsZero(result) ==
  \A k \in DOMAIN result : k \notin StrTags => \A i \in DOMAIN result[k] : result[k][i] = 0

\* C12: a journal entry whose timestamp is missing, empty or unparseable contributes
\* to no bucket, tags that are not strings contribute nothing, and the counts
\* trend_analyzer returns are those it returns for the store without the malformed
\* entries
C12_MalformedSkipped ==
  Analyzed =>
    /\ out.current = current_counts(WellFormed(mem), out.now, out.window_days)
    /\ out.prev = prev_counts(WellFormed(mem), out.now, out.window_days, out.compare_days)
    /\ NonStringsZero(out.current)
    /\ NonStringsZero(out.prev)
    /\ \A g \in StrTags, i \in 0..(out.window_days - 1) :
         Bucket(out.current, g, i) = OccurrencesOn(mem, Len(mem), g, CurStart, out.now, i)

\* an entry with a damaged timestamp, then an entry with a tag that is not a string:
\* the scan went on past the first, and counted the string tags of the second
C12_Witness ==
  /\ Analyzed
  /\ Len(JournalEntries(mem)) = 2
  /\ JournalEntries(mem)[1].timestamp.kind = "bad"
  /\ JournalEntries(mem)[1].timestamp.wall >= CurStart
  /\ JournalEntries(mem)[2].moods_detected = <<"anxiety", "#7", "anxiety">>
  /\ SumSeq(out.current["anxiety"]) = 2
  /\ SumSeq(out.current["joy"]) = 0
  /\ "#7" \in DOMAIN out.current

\* C13 (as claimed): in every state reached by log_mood and trend_analyzer calls,
\* the log_mood calls interleaving at their store operations, the store holds at
\* most one Emotion record of each name, and created_emotions names no record twice
C13_UniqueEmotionNames ==
  /\ \A i, j \in 1..Len(mem) :
       (mem[i].cls = "Emotion" /\ mem[j].cls = "Emotion" /\ mem[i].name = mem[j].name) => i = j
  /\ out.op = "log_mood" =>
       \A i, j \in 1..Len(out.created_emotions) :
         out.created_emotions[i] = out.created_emotions[j] => i = j

\* the self-harm phrases of LocalLLM.interpret
DangerPatterns == {"suicide", "kill myself", "want to die", "i want to die", "end my life",
                   "hurt myself", "self harm"}

\* C14 (as claimed): every POST /entry whose text holds a self-harm phrase completes
\* with the crisis message and exactly the crisis_hotline resource, whatever the tags,
\* the provider and its answers, and the requests served in the last minute
C14_EscalationNeverLost ==
  (out.op = "post_entry" /\ Patterns(out.text) \cap DangerPatterns # {})
  => /\ out.status = 200
     /\ out.message = "crisis"
     /\ out.suggestions = <<(<<"resource", "crisis_hotline">>)>>
====
